---- MODULE Spec2Model ----
(***************************************************************************)
(* Model of the OpenBanking MCP server: the bank API client (parallel      *)
(* multi-source aggregation), the agent registry (model probing) and the   *)
(* routing of requests to agents.                                          *)
(*                                                                         *)
(* One request is a coroutine run by the asyncio event loop: the code      *)
(* between two awaits is one atomic step, and so one action.               *)
(***************************************************************************)
EXTENDS Integers, Sequences, FiniteSets, TLC

VARIABLES
    phase,      \* life cycle of the server: new, connecting, probing, registering, ready,
                \* failed, closed
    config,     \* Config.agents: the configured agents, in file order
    available,  \* the model names the runtime's list() call reports
    probeIdx,   \* position of _initialize_agents in config
    agents,     \* AgentManager.agents: insertion-ordered dict, as a sequence of Agent records
    registered_tools, \* ToolRegistry.registered_tools: the keys of the dict, in insertion order
    reqs,       \* the requests (coroutines) in progress, per request slot
    served      \* number of requests that have returned to their caller

vars == <<phase, config, available, probeIdx, agents, registered_tools, reqs, served>>

(***************************************************************************)
(* Bounds of the model.                                                    *)
(***************************************************************************)
\* requests handled in one run
MaxCalls == 2

\* request slots: the coroutines that may be in progress at once.  With one
\* slot the requests of a run follow one another and the tasks of one request
\* interleave; with two slots the tasks of two requests interleave as well.
\* No handler writes state another request reads: the registry is written by
\* initialize and shutdown only, and the bank API client keeps no state.
OneRequest == {"r1"}
TwoRequests == {"r1", "r2"}

\* the request slots of the run
Requests == DOMAIN reqs

(***************************************************************************)
(* Inputs.                                                                 *)
(***************************************************************************)
NoSubject == ""

\* a key the request body does not have, and an empty query
NoKey == "<no key>"
NoQuery == ""

\* request_data.get(key, default)
GetOr(value, default) == IF value = NoKey THEN default ELSE value
CustomerOIDs == {"CUST1", "CUST2"}

\* what the bank service does with one HTTP request
Outcomes == {"ok", "http_status", "request_error", "decode_error"}

(***************************************************************************)
(* Bank API client (src/src/utils/bank_api_client.py).                     *)
(***************************************************************************)
\* transactions limit passed by get_comprehensive_customer_data
TxLimit == 50

\* the five sources in the order get_comprehensive_customer_data creates them
Sources == <<"customer", "portfolio", "accounts", "transactions", "risk_metrics">>
SourceSet == {Sources[i] : i \in 1..Len(Sources)}

\* an endpoint template with its placeholder filled in and its query string;
\* limit 0 and subject NoSubject stand for "no such part in the URL"
Url(key, subject, limit) == [endpoint |-> key, subject |-> subject, limit |-> limit]
NoUrl == Url("", NoSubject, 0)

\* A Python value as the client handles it: a decoded JSON object (body), an
\* error dict {"error": msg} (error # <<>>), or a raised exception (raised).
Payload(url) == [raised |-> FALSE, error |-> <<>>, body |-> url]
ErrorDict(msg) == [raised |-> FALSE, error |-> msg, body |-> NoUrl]
Raised(exc) == [raised |-> TRUE, error |-> <<exc>>, body |-> NoUrl]
NoValue == [raised |-> FALSE, error |-> <<>>, body |-> NoUrl]

\* _make_request: one GET; every failure is logged and re-raised.  A task
\* that is cancelled gets CancelledError at its await.
make_request(url, outcome) ==
    CASE outcome = "ok"            -> Payload(url)
      [] outcome = "http_status"   -> Raised("HTTPStatusError")
      [] outcome = "request_error" -> Raised("RequestError")
      [] outcome = "cancelled"     -> Raised("CancelledError")
      [] OTHER                     -> Raised("JSONDecodeError")

\* except Exception: CancelledError is a BaseException and passes through
IsException(res) == res.raised /\ res.error # <<"CancelledError">>

\* the try/except of every get_* method: an exception becomes an error dict
Caught(res, what) ==
    IF IsException(res) THEN ErrorDict(<<"Failed to retrieve " \o what>> \o res.error)
    ELSE res

get_customer_data(customer_oid, outcome) ==
    Caught(make_request(Url("customer", customer_oid, 0), outcome), "customer data")

get_portfolio_data(customer_oid, outcome) ==
    Caught(make_request(Url("portfolio", customer_oid, 0), outcome), "portfolio data")

\* get_transactions without its try/except
get_transactions_NoCatch(customer_oid, limit, outcome) ==
    make_request(Url("transactions", customer_oid, limit), outcome)

\* (the bank service answers with JSON objects, so the len(data.get(...)) of
\* the log line does not raise)
get_transactions(customer_oid, limit, outcome) ==
    Caught(make_request(Url("transactions", customer_oid, limit), outcome), "transactions")

get_accounts(customer_oid, outcome) ==
    Caught(make_request(Url("accounts", customer_oid, 0), outcome), "accounts")

get_market_data(outcome) ==
    Caught(make_request(Url("market_data", NoSubject, 0), outcome), "market data")

get_risk_metrics(customer_oid, outcome) ==
    Caught(make_request(Url("risk_metrics", customer_oid, 0), outcome), "risk metrics")

\* the coroutine get_comprehensive_customer_data creates for each source
SourceTask(source, customer_oid, outcome) ==
    CASE source = "customer"     -> get_customer_data(customer_oid, outcome)
      [] source = "portfolio"    -> get_portfolio_data(customer_oid, outcome)
      [] source = "accounts"     -> get_accounts(customer_oid, outcome)
      [] source = "transactions" -> get_transactions(customer_oid, TxLimit, outcome)
      [] OTHER                   -> get_risk_metrics(customer_oid, outcome)

\* a task of the event loop: none (not created), scheduled (created by gather,
\* not yet run), running (suspended in its HTTP call), done (settled with the
\* result res), cancelling (cancel() was called on it, CancelledError is thrown
\* into it when it runs next), cancelled; out records what the bank service
\* did with its HTTP request
\* seq is the rank of the task among the completed ones where the
\* specification records the order of completion, 0 where it does not.
NoTask == [st |-> "none", res |-> NoValue, out |-> "", seq |-> 0]
NoTasks == [s \in SourceSet |-> NoTask]
ScheduledTasks ==
    [s \in SourceSet |-> [st |-> "scheduled", res |-> NoValue, out |-> "", seq |-> 0]]

\* a wait for the first task instead of for all
GatherReady_First(tasks) == \E s \in SourceSet : tasks[s].st = "done"

\* asyncio.gather(..., return_exceptions=True) resolves when every task is done
GatherReady(tasks) == \A s \in SourceSet : tasks[s].st = "done"

\* a gather that hands the results back in the order the tasks completed in
GatherResults_AsCompleted(tasks) ==
    [raised |-> FALSE, error |-> <<>>,
     results |-> [s \in SourceSet |->
        LET i == CHOOSE k \in 1..Len(Sources) : Sources[k] = s
        IN  IF \E t \in SourceSet : tasks[t].seq = i
            THEN tasks[CHOOSE t \in SourceSet : tasks[t].seq = i].res
            ELSE tasks[s].res]]

\* ... and hands back every task's result, a raised exception as a value, in
\* the order of the awaitables it was given
GatherResults(tasks) ==
    [raised |-> FALSE, error |-> <<>>, results |-> [s \in SourceSet |-> tasks[s].res]]

\* one field of comprehensive_data: x if not isinstance(x, Exception) else {"error": str(x)}
Field(x) == IF x.raised THEN ErrorDict(x.error) ELSE x

\* a compilation that leaves the failed sources out
comprehensive_data_SkipFailed(customer_oid, results) ==
    [k \in {"customer_oid"} \cup {s \in SourceSet : results[s].error = <<>>} |->
        IF k = "customer_oid" THEN customer_oid ELSE Field(results[k])]

\* a compilation with two fields mixed up
comprehensive_data_Swapped(customer_oid, results) ==
    [customer_oid |-> customer_oid,
     customer     |-> Field(results["customer"]),
     portfolio    |-> Field(results["portfolio"]),
     accounts     |-> Field(results["transactions"]),
     transactions |-> Field(results["accounts"]),
     risk_metrics |-> Field(results["risk_metrics"])]

\* the dict get_comprehensive_customer_data compiles
comprehensive_data(customer_oid, results) ==
    [customer_oid |-> customer_oid,
     customer     |-> Field(results["customer"]),
     portfolio    |-> Field(results["portfolio"]),
     accounts     |-> Field(results["accounts"]),
     transactions |-> Field(results["transactions"]),
     risk_metrics |-> Field(results["risk_metrics"])]

\* the blanket error of the outer except
BlanketError(exc) ==
    [error |-> <<"Failed to retrieve comprehensive customer data">> \o exc]

\* what get_comprehensive_customer_data returns once gather has resolved
ComprehensiveResult(customer_oid, tasks) ==
    LET g == GatherResults(tasks)
    IN  IF g.raised THEN BlanketError(g.error)
        ELSE comprehensive_data(customer_oid, g.results)

NoComposite == [none |-> TRUE]

(***************************************************************************)
(* Agents and the registry (src/src/agents/agent_manager.py).              *)
(***************************************************************************)
AgentNames == {"market_analyst", "portfolio_manager", "risk_analyst", "explainability_agent"}

\* model names are strings the code splits and compares: sequences of characters
LLAMA32_LATEST == <<"l","l","a","m","a","3",".","2",":","l","a","t","e","s","t">>
LLAMA32_3B == <<"l","l","a","m","a","3",".","2",":","3","b">>
LLAMA3_LATEST == <<"l","l","a","m","a","3",":","l","a","t","e","s","t">>
MISTRAL_7B == <<"m","i","s","t","r","a","l",":","7","b">>

AgentConfig(name, model, enabled) == [name |-> name, model |-> model, enabled |-> enabled]

\* Agent.__init__
Agent(cfg) ==
    [name |-> cfg.name, model |-> cfg.model, model_name |-> cfg.model, is_available |-> FALSE]
NoAgent == [name |-> "", model |-> <<>>, model_name |-> <<>>, is_available |-> FALSE]

\* str.split(':')[0]
RECURSIVE SplitBase(_)
SplitBase(s) ==
    IF s = <<>> \/ Head(s) = ":" THEN <<>> ELSE <<Head(s)>> \o SplitBase(Tail(s))

\* str.startswith
StartsWith(s, prefix) ==
    /\ Len(prefix) <= Len(s)
    /\ SubSeq(s, 1, Len(prefix)) = prefix

\* the names is_model_available extracts from the list() response: no empty ones
AvailableModels(listed) == SelectSeq(listed, LAMBDA m : m # <<>>)

\* a probe that accepts a prefix match and leaves the agent's model as configured
is_model_available_NoRewrite(agent, listed, listOk) ==
    LET models == AvailableModels(listed)
        base == SplitBase(agent.model)
    IN  IF ~listOk THEN [ok |-> FALSE, agent |-> agent]
        ELSE IF \E i \in 1..Len(models) :
                    models[i] = agent.model \/ StartsWith(models[i], base)
             THEN [ok |-> TRUE, agent |-> agent]
        ELSE [ok |-> FALSE, agent |-> agent]

\* is_model_available: exact match, else the first listed model that starts
\* with the configured base name (the agent's model is rewritten to it), else
\* not available; a failing list() call is not available either
is_model_available(agent, listed, listOk) ==
    LET models == AvailableModels(listed)
        base == SplitBase(agent.model)
        hits == {i \in 1..Len(models) : StartsWith(models[i], base)}
        first == CHOOSE i \in hits : \A j \in hits : i <= j
    IN  IF ~listOk THEN [ok |-> FALSE, agent |-> agent]
        ELSE IF \E i \in 1..Len(models) : models[i] = agent.model
             THEN [ok |-> TRUE, agent |-> agent]
        ELSE IF hits # {}
             THEN [ok |-> TRUE, agent |-> [agent EXCEPT !.model = models[first]]]
        ELSE [ok |-> FALSE, agent |-> agent]

\* the keys of the agents dict
AgentKeys(ags) == {ags[i].name : i \in 1..Len(ags)}

\* self.agents[name] = agent: a new key is appended, an old key keeps its place
DictSet(ags, agent) ==
    IF agent.name \in AgentKeys(ags)
    THEN [i \in 1..Len(ags) |-> IF ags[i].name = agent.name THEN agent ELSE ags[i]]
    ELSE Append(ags, agent)

\* get_agent: self.agents.get(agent_name)
get_agent(ags, agent_name) ==
    IF agent_name \in AgentKeys(ags)
    THEN ags[CHOOSE i \in 1..Len(ags) : ags[i].name = agent_name]
    ELSE NoAgent

\* a mapping whose default is another agent
task_agent_mapping_OtherDefault(task_type) ==
    CASE task_type = "market_analysis" -> "market_analyst"
      [] task_type = "portfolio"       -> "portfolio_manager"
      [] task_type = "risk"            -> "risk_analyst"
      [] task_type = "explanation"     -> "explainability_agent"
      [] task_type = "swot"            -> "explainability_agent"
      [] task_type = "strategy"        -> "portfolio_manager"
      [] task_type = "general"         -> "explainability_agent"
      [] OTHER                         -> "market_analyst"

\* task_agent_mapping.get(task_type, "explainability_agent")
task_agent_mapping(task_type) ==
    CASE task_type = "market_analysis" -> "market_analyst"
      [] task_type = "portfolio"       -> "portfolio_manager"
      [] task_type = "risk"            -> "risk_analyst"
      [] task_type = "explanation"     -> "explainability_agent"
      [] task_type = "swot"            -> "explainability_agent"
      [] task_type = "strategy"        -> "portfolio_manager"
      [] task_type = "general"         -> "explainability_agent"
      [] OTHER                         -> "explainability_agent"

\* a selection that rotates over the registry with the requests served
BestAgent_RoundRobin(ags, task_type) ==
    IF ags # <<>> THEN ags[(served % Len(ags)) + 1].name ELSE "none"

\* a selection that falls back to the last key of the dict
BestAgent_LastFallback(ags, task_type) ==
    LET preferred_agent == task_agent_mapping(task_type)
    IN  IF preferred_agent \in AgentKeys(ags) THEN preferred_agent
        ELSE IF ags # <<>> THEN ags[Len(ags)].name
        ELSE "none"

\* a selection without the sentinel: the preferred agent is queried anyway
BestAgent_NoSentinel(ags, task_type) ==
    LET preferred_agent == task_agent_mapping(task_type)
    IN  IF preferred_agent \in AgentKeys(ags) THEN preferred_agent
        ELSE IF ags # <<>> THEN ags[1].name
        ELSE preferred_agent

\* the agent query_best_agent queries: the preferred one if registered, else
\* the first key of the dict, else the sentinel "none"
BestAgent(ags, task_type) ==
    LET preferred_agent == task_agent_mapping(task_type)
    IN  IF preferred_agent \in AgentKeys(ags) THEN preferred_agent
        ELSE IF ags # <<>> THEN ags[1].name
        ELSE "none"

\* a tool mapping that sends risk_metrics to portfolio_manager
tool_agent_mapping_RiskMetricsMoved(tool_name) ==
    CASE tool_name \in {"get_market_data", "analyze_stock", "get_economic_indicators",
                        "market_sentiment", "generate_signals"} -> "market_analyst"
      [] tool_name \in {"portfolio_analysis", "asset_allocation", "rebalance_portfolio",
                        "performance_metrics", "backtest_strategy", "optimize_portfolio",
                        "risk_metrics"}                         -> "portfolio_manager"
      [] tool_name \in {"calculate_var", "stress_test", "correlation_analysis"}
                                                               -> "risk_analyst"
      [] tool_name \in {"explain_analysis", "swot_analysis", "summarize_results"}
                                                               -> "explainability_agent"
      [] OTHER                                                 -> ""

\* a tool mapping with explainability_agent as its default
tool_agent_mapping_DefaultExplain(tool_name) ==
    CASE tool_name \in {"get_market_data", "analyze_stock", "get_economic_indicators",
                        "market_sentiment", "generate_signals"} -> "market_analyst"
      [] tool_name \in {"portfolio_analysis", "asset_allocation", "rebalance_portfolio",
                        "performance_metrics", "backtest_strategy", "optimize_portfolio"}
                                                               -> "portfolio_manager"
      [] tool_name \in {"calculate_var", "stress_test", "correlation_analysis",
                        "risk_metrics"}                         -> "risk_analyst"
      [] OTHER                                                 -> "explainability_agent"

\* tool_agent_mapping.get(tool_name): "" stands for None
tool_agent_mapping(tool_name) ==
    CASE tool_name \in {"get_market_data", "analyze_stock", "get_economic_indicators",
                        "market_sentiment", "generate_signals"} -> "market_analyst"
      [] tool_name \in {"portfolio_analysis", "asset_allocation", "rebalance_portfolio",
                        "performance_metrics", "backtest_strategy", "optimize_portfolio"}
                                                               -> "portfolio_manager"
      [] tool_name \in {"calculate_var", "stress_test", "correlation_analysis",
                        "risk_metrics"}                         -> "risk_analyst"
      [] tool_name \in {"explain_analysis", "swot_analysis", "summarize_results"}
                                                               -> "explainability_agent"
      [] OTHER                                                 -> ""

\* a tool lookup that falls back to the first registered agent
get_agent_for_tool_Fallback(ags, tool_name) ==
    LET agent_name == tool_agent_mapping(tool_name)
    IN  IF agent_name \in AgentKeys(ags) THEN get_agent(ags, agent_name)
        ELSE IF ags # <<>> THEN ags[1]
        ELSE NoAgent

\* get_agent_for_tool: the mapped agent if the tool is in the table, else None
get_agent_for_tool(ags, tool_name) ==
    LET agent_name == tool_agent_mapping(tool_name)
    IN  IF agent_name # "" THEN get_agent(ags, agent_name) ELSE NoAgent

(***************************************************************************)
(* Requests.                                                               *)
(***************************************************************************)
\* the client.generate call of generate_response: the model it names and the
\* customer data its prompt carries; failed records that the call raised
NoGen == [issued |-> FALSE, model |-> <<>>, customer |-> NoComposite, failed |-> FALSE]
GenCall(agent, customer_data) ==
    [issued |-> TRUE, model |-> agent.model, customer |-> customer_data, failed |-> FALSE]

\* the JSON object an HTTP handler returns
NoBody == [none |-> TRUE]
ErrorBody(text) == [error |-> text]

\* what a request hands back to its caller
NoResult ==
    [agent_name |-> "", response |-> <<>>, error |-> <<>>, data |-> NoComposite,
     body |-> NoBody]

\* a request slot: where the coroutine stands (pc), what was asked (kind, arg,
\* subj), the agent it holds, its fetch tasks, the composite record it got, its
\* generate call and its result.  reg records the keys of the registry when
\* the request looked an agent up, http what the bank service did with the
\* request of a get_market_data call, invoked the names of the agents whose
\* generate_response the request has called, in the order of the calls.
IdleReq ==
    [pc |-> "idle", kind |-> "", arg |-> "", subj |-> NoSubject, agent |-> NoAgent,
     tasks |-> NoTasks, composite |-> NoComposite, gen |-> NoGen, result |-> NoResult,
     reg |-> {}, http |-> "", invoked |-> <<>>]

InFlight == Cardinality({r \in Requests : reqs[r].pc # "idle"})

\* a new request may arrive
CanBegin(r) ==
    /\ reqs[r].pc = "idle"
    /\ served + InFlight < MaxCalls

\* the AgentManager answers requests once initialize has completed
Serving == phase \in {"ready", "closed"}

\* a generate_response that calls generate at once and fetches nothing
GenerateBegin_Eager(q, agent, customer_oid) ==
    [q EXCEPT !.pc = "generating", !.agent = agent, !.subj = customer_oid,
              !.invoked = Append(@, agent.name),
              !.gen = GenCall(agent, NoComposite)]

\* generate_response up to its first await: with a customer id the five
\* fetches are created and gathered, without one generate is called at once
GenerateBegin(q, agent, customer_oid) ==
    IF customer_oid # NoSubject
    THEN [q EXCEPT !.pc = "fetching", !.agent = agent, !.subj = customer_oid,
                   !.invoked = Append(@, agent.name),
                   !.tasks = ScheduledTasks]
    ELSE [q EXCEPT !.pc = "generating", !.agent = agent,
                   !.invoked = Append(@, agent.name),
                   !.gen = GenCall(agent, NoComposite)]

\* generate_response after generate has returned or raised
GenerateResponse(ok) ==
    IF ok THEN <<"OK">>
    ELSE <<"Error: Unable to generate response - ", "ResponseError">>

\* an /mcp/analyze that selects its agent by the task-type table of query_best_agent
agent_mapping_ViaTaskTable(analysis_type) == task_agent_mapping(analysis_type)

\* agent_mapping.get(analysis_type, "explainability_agent") of /mcp/analyze
agent_mapping(analysis_type) ==
    CASE analysis_type = "portfolio"     -> "portfolio_manager"
      [] analysis_type = "risk"          -> "risk_analyst"
      [] analysis_type = "market"        -> "market_analyst"
      [] analysis_type = "comprehensive" -> "explainability_agent"
      [] OTHER                           -> "explainability_agent"

\* what the handler of a request returns once generate_response has returned
HandlerReturn(q, response) ==
    CASE q.kind = "call"    -> [result |-> response]
      [] q.kind = "query"   -> [response |-> response]
      [] q.kind = "analyze" -> [customer_oid |-> q.subj, analysis_type |-> q.arg,
                                agent_used |-> agent_mapping(q.arg), analysis |-> response]
      [] OTHER              -> NoBody

(***************************************************************************)
(* Actions of the bank API client.                                         *)
(***************************************************************************)
\* a get_comprehensive_customer_data that hands out the record another call
\* in progress has compiled for the same customer
get_comprehensive_customer_data_Cached(r, customer_oid) ==
    /\ CanBegin(r)
    /\ LET hits == {o \in Requests : /\ reqs[o].kind = "composite" /\ reqs[o].pc = "done"
                                     /\ reqs[o].subj = customer_oid}
       IN  reqs' = [reqs EXCEPT ![r] =
                IF hits # {}
                THEN [IdleReq EXCEPT !.pc = "done", !.kind = "composite",
                                     !.subj = customer_oid,
                                     !.result.data = reqs[CHOOSE o \in hits : TRUE].result.data]
                ELSE [IdleReq EXCEPT !.pc = "fetching", !.kind = "composite",
                                     !.subj = customer_oid, !.tasks = ScheduledTasks]]
    /\ UNCHANGED <<phase, config, available, registered_tools, probeIdx, agents, served>>

\* get_comprehensive_customer_data up to its await of gather
get_comprehensive_customer_data(r, customer_oid) ==
    /\ CanBegin(r)
    /\ reqs' = [reqs EXCEPT ![r] = [IdleReq EXCEPT !.pc = "fetching", !.kind = "composite",
                                             !.subj = customer_oid,
                                             !.tasks = ScheduledTasks]]
    /\ UNCHANGED <<phase, config, available, registered_tools, probeIdx, agents, served>>

\* a direct get_market_data call, up to its HTTP request
MarketCall(r) ==
    /\ CanBegin(r)
    /\ reqs' = [reqs EXCEPT ![r] = [IdleReq EXCEPT !.pc = "market", !.kind = "market"]]
    /\ UNCHANGED <<phase, config, available, registered_tools, probeIdx, agents, served>>

\* the HTTP request of get_market_data completes
MarketSettle(r, outcome) ==
    /\ reqs[r].pc = "market"
    /\ reqs' = [reqs EXCEPT ![r].pc = "done", ![r].http = outcome,
                            ![r].result.data = get_market_data(outcome)]
    /\ UNCHANGED <<phase, config, available, registered_tools, probeIdx, agents, served>>

\* tasks that run one after the other, each after the one before it is done
MayStart_Serial(tasks, i) ==
    /\ tasks[Sources[i]].st = "scheduled"
    /\ \A j \in 1..(i - 1) : tasks[Sources[j]].st = "done"

\* the tasks gather created run in the order of their creation (the event
\* loop's ready queue is first in, first out)
MayStart(tasks, i) ==
    /\ tasks[Sources[i]].st = "scheduled"
    /\ \A j \in 1..(i - 1) : tasks[Sources[j]].st # "scheduled"

\* the event loop runs a created task up to its HTTP request
StartFetch(r, i) ==
    /\ reqs[r].pc \in {"fetching", "cancelling"}
    /\ MayStart(reqs[r].tasks, i)
    /\ reqs' = [reqs EXCEPT ![r].tasks[Sources[i]].st = "running"]
    /\ UNCHANGED <<phase, config, available, registered_tools, probeIdx, agents, served>>

\* the HTTP request of one source completes and its get_* method returns
SettleFetch(r, source, outcome) ==
    /\ reqs[r].pc \in {"fetching", "cancelling"}
    /\ reqs[r].tasks[source].st = "running"
    /\ reqs' = [reqs EXCEPT ![r].tasks[source] =
                   [st |-> "done", res |-> SourceTask(source, reqs[r].subj, outcome),
                    out |-> outcome, seq |-> 0]]
    /\ UNCHANGED <<phase, config, available, registered_tools, probeIdx, agents, served>>

\* SettleFetch, with the rank of the completion recorded
SettleFetchOrdered(r, source, outcome) ==
    /\ reqs[r].pc \in {"fetching", "cancelling"}
    /\ reqs[r].tasks[source].st = "running"
    /\ reqs' = [reqs EXCEPT ![r].tasks[source] =
                   [st |-> "done", res |-> SourceTask(source, reqs[r].subj, outcome),
                    out |-> outcome,
                    seq |-> 1 + Cardinality({s \in SourceSet : reqs[r].tasks[s].st = "done"})]]
    /\ UNCHANGED <<phase, config, available, registered_tools, probeIdx, agents, served>>

\* a wait for gather with a deadline of its own: when it passes with a fetch
\* still pending, the call gives up and returns the blanket error
Gathered_Deadline(r) ==
    /\ reqs[r].pc = "fetching"
    /\ LET data == IF GatherReady(reqs[r].tasks)
                   THEN ComprehensiveResult(reqs[r].subj, reqs[r].tasks)
                   ELSE BlanketError(<<"TimeoutError">>)
       IN  reqs' = [reqs EXCEPT ![r] =
                IF reqs[r].kind \in {"composite", "customer"}
                THEN [@ EXCEPT !.pc = "done", !.composite = data, !.result.data = data,
                               !.result.body = IF reqs[r].kind = "customer" THEN data
                                               ELSE NoBody]
                ELSE [@ EXCEPT !.pc = "generating", !.composite = data,
                               !.gen = GenCall(reqs[r].agent, data)]]
    /\ UNCHANGED <<phase, config, available, registered_tools, probeIdx, agents, served>>

\* gather resolves: get_comprehensive_customer_data compiles and returns, and
\* its caller goes on to its next await (generate_response calls generate)
Gathered(r) ==
    /\ reqs[r].pc = "fetching"
    /\ GatherReady(reqs[r].tasks)
    /\ LET data == ComprehensiveResult(reqs[r].subj, reqs[r].tasks)
       IN  reqs' = [reqs EXCEPT ![r] =
                IF reqs[r].kind \in {"composite", "customer"}
                THEN [@ EXCEPT !.pc = "done", !.composite = data, !.result.data = data,
                               !.result.body = IF reqs[r].kind = "customer" THEN data
                                               ELSE NoBody]
                ELSE [@ EXCEPT !.pc = "generating", !.composite = data,
                               !.gen = GenCall(reqs[r].agent, data)]]
    /\ UNCHANGED <<phase, config, available, registered_tools, probeIdx, agents, served>>

\* the coroutine awaiting gather is cancelled and its tasks are left alone
CancelRequest_Detached(r) ==
    /\ reqs[r].pc = "fetching"
    /\ reqs' = [reqs EXCEPT ![r].pc = "cancelling"]
    /\ UNCHANGED <<phase, config, available, registered_tools, probeIdx, agents, served>>

\* the coroutine awaiting gather is cancelled: the cancel() of its task
\* cancels the gather future, which calls cancel() on every task of its
\* that is not done
CancelRequest(r) ==
    /\ reqs[r].pc = "fetching"
    /\ reqs' = [reqs EXCEPT ![r].pc = "cancelling",
                            ![r].tasks = [s \in SourceSet |->
                                IF @[s].st \in {"scheduled", "running"}
                                THEN [@[s] EXCEPT !.st = "cancelling"]
                                ELSE @[s]]]
    /\ UNCHANGED <<phase, config, available, registered_tools, probeIdx, agents, served>>

\* the event loop runs a task cancel() was called on: CancelledError is thrown
\* into its get_* coroutine, whose except clauses do not catch it
FetchCancelled(r, source) ==
    /\ reqs[r].pc = "cancelling"
    /\ reqs[r].tasks[source].st = "cancelling"
    /\ reqs' = [reqs EXCEPT ![r].tasks[source] =
                   [st |-> IF SourceTask(source, reqs[r].subj, "cancelled").raised
                           THEN "cancelled" ELSE "done",
                    res |-> SourceTask(source, reqs[r].subj, "cancelled"),
                    out |-> "", seq |-> 0]]
    /\ UNCHANGED <<phase, config, available, registered_tools, probeIdx, agents, served>>

\* every task of a cancelled gather has finished: the gather future raises
\* CancelledError into get_comprehensive_customer_data, whose except Exception
\* does not catch it
GatherCancelled(r) ==
    /\ reqs[r].pc = "cancelling"
    /\ \A s \in SourceSet : reqs[r].tasks[s].st \in {"done", "cancelled"}
    /\ reqs' = [reqs EXCEPT ![r].pc = "cancelled"]
    /\ UNCHANGED <<phase, config, available, registered_tools, probeIdx, agents, served>>

\* the caller takes the result, or is gone
Return(r) ==
    /\ reqs[r].pc \in {"done", "cancelled"}
    /\ reqs' = [reqs EXCEPT ![r] = IdleReq]
    /\ served' = served + 1
    /\ UNCHANGED <<phase, config, available, registered_tools, probeIdx, agents>>

(***************************************************************************)
(* Actions of the agent manager.                                           *)
(***************************************************************************)
\* after config entry idx - 1, _initialize_agents goes on, or
\* AgentManager.initialize returns and the server registers its tools
AfterProbe(idx) == IF idx > Len(config) THEN "registering" ELSE "probing"

\* AgentManager.initialize up to the list() call of _test_ollama_connection
Initialize ==
    /\ phase = "new"
    /\ phase' = "connecting"
    /\ UNCHANGED <<config, available, registered_tools, probeIdx, agents, reqs, served>>

\* _test_ollama_connection: a failing list() call fails initialize
ConnectionTested(ok) ==
    /\ phase = "connecting"
    /\ phase' = IF ok THEN AfterProbe(1) ELSE "failed"
    /\ probeIdx' = 1
    /\ UNCHANGED <<config, available, registered_tools, agents, reqs, served>>

\* a loop of _initialize_agents that gives up at the first agent it cannot register
ProbeAgent_StopOnFailure(listOk) ==
    /\ phase = "probing"
    /\ LET cfg == config[probeIdx]
           probe == is_model_available(Agent(cfg), available, listOk)
       IN  IF cfg.enabled /\ probe.ok
           THEN /\ agents' = DictSet(agents, [probe.agent EXCEPT !.is_available = TRUE])
                /\ phase' = AfterProbe(probeIdx + 1)
           ELSE /\ agents' = agents
                /\ phase' = "failed"
    /\ probeIdx' = probeIdx + 1
    /\ UNCHANGED <<config, available, registered_tools, reqs, served>>

\* a loop of _initialize_agents that does not skip disabled agents
ProbeAgent_IgnoreEnabled(listOk) ==
    /\ phase = "probing"
    /\ LET cfg == config[probeIdx]
           probe == is_model_available(Agent(cfg), available, listOk)
       IN  agents' = IF probe.ok
                     THEN DictSet(agents, [probe.agent EXCEPT !.is_available = TRUE])
                     ELSE agents
    /\ probeIdx' = probeIdx + 1
    /\ phase' = AfterProbe(probeIdx + 1)
    /\ UNCHANGED <<config, available, registered_tools, reqs, served>>

\* one round of the loop of _initialize_agents
ProbeAgent(listOk) ==
    /\ phase = "probing"
    /\ LET cfg == config[probeIdx]
           probe == is_model_available(Agent(cfg), available, listOk)
       IN  agents' = IF cfg.enabled /\ probe.ok
                     THEN DictSet(agents, [probe.agent EXCEPT !.is_available = TRUE])
                     ELSE agents
    /\ probeIdx' = probeIdx + 1
    /\ phase' = AfterProbe(probeIdx + 1)
    /\ UNCHANGED <<config, available, registered_tools, reqs, served>>

\* _track_tool: registered_tools[tool_name] = description
track_tool(tools, tool_name) ==
    IF \E i \in 1..Len(tools) : tools[i] = tool_name THEN tools ELSE Append(tools, tool_name)

\* ToolRegistry.register_tools: of its five _register_* methods only
\* _register_portfolio_tools tracks tools, and it tracks these two
register_tools ==
    /\ phase = "registering"
    /\ registered_tools' =
           track_tool(track_tool(registered_tools, "analyze_portfolio"),
                      "portfolio_optimization")
    /\ phase' = "ready"
    /\ UNCHANGED <<config, available, probeIdx, agents, reqs, served>>

\* AgentManager.shutdown
Shutdown ==
    /\ phase = "ready"
    /\ phase' = "closed"
    /\ agents' = <<>>
    /\ UNCHANGED <<config, available, registered_tools, probeIdx, reqs, served>>

\* query_agent: get_agent, then generate_response
query_agent(q, agent_name, customer_oid) ==
    LET agent == get_agent(agents, agent_name)
    IN  IF agent = NoAgent
        THEN [q EXCEPT !.pc = "done",
                       !.result.response = <<"Error: Agent '", agent_name, "' not found">>]
        ELSE GenerateBegin(q, agent, customer_oid)

\* a query_best_agent that also calls the first agent of the registry when
\* the preferred agent is another one
query_best_agent_TryBoth(r, task_type, customer_oid) ==
    /\ Serving
    /\ CanBegin(r)
    /\ LET q == [IdleReq EXCEPT !.kind = "route", !.arg = task_type, !.subj = customer_oid,
                                !.reg = AgentKeys(agents)]
           name == BestAgent(agents, task_type)
           first == IF agents # <<>> /\ agents[1].name # name
                    THEN [q EXCEPT !.invoked = <<agents[1].name>>] ELSE q
       IN  reqs' = [reqs EXCEPT ![r] =
                IF name = "none"
                THEN [q EXCEPT !.pc = "done", !.result.agent_name = "none",
                               !.result.response = <<"Error: No agents available">>]
                ELSE [query_agent(first, name, customer_oid) EXCEPT
                          !.result.agent_name = name]]
    /\ UNCHANGED <<phase, config, available, registered_tools, probeIdx, agents, served>>

\* query_best_agent up to its first await
query_best_agent(r, task_type, customer_oid) ==
    /\ Serving
    /\ CanBegin(r)
    /\ LET q == [IdleReq EXCEPT !.kind = "route", !.arg = task_type, !.subj = customer_oid,
                                !.reg = AgentKeys(agents)]
           name == BestAgent(agents, task_type)
       IN  reqs' = [reqs EXCEPT ![r] =
                IF name = "none"
                THEN [q EXCEPT !.pc = "done", !.result.agent_name = "none",
                               !.result.response = <<"Error: No agents available">>]
                ELSE [query_agent(q, name, customer_oid) EXCEPT !.result.agent_name = name]]
    /\ UNCHANGED <<phase, config, available, registered_tools, probeIdx, agents, served>>

\* a /mcp/call that asks for the customer's data before it looks the agent up
call_tool_FetchFirst(r, tool_name, customer_oid) ==
    /\ Serving
    /\ CanBegin(r)
    /\ LET q == [IdleReq EXCEPT !.kind = "call", !.arg = tool_name, !.subj = customer_oid,
                                !.reg = AgentKeys(agents)]
           agent == get_agent_for_tool(agents, tool_name)
       IN  reqs' = [reqs EXCEPT ![r] =
                IF agent = NoAgent
                THEN [q EXCEPT !.pc = "done",
                               !.tasks = IF customer_oid # NoSubject THEN ScheduledTasks
                                         ELSE NoTasks,
                               !.result.error = <<"No agent available for tool: ", tool_name>>,
                               !.result.body =
                                   ErrorBody(<<"No agent available for tool: ", tool_name>>)]
                ELSE GenerateBegin(q, agent, customer_oid)]
    /\ UNCHANGED <<phase, config, available, registered_tools, probeIdx, agents, served>>

\* POST /mcp/call up to its first await: the customer id of the request is
\* put into the arguments, where execute_tool reads it
call_tool(r, tool_name, customer_oid) ==
    /\ Serving
    /\ CanBegin(r)
    /\ LET q == [IdleReq EXCEPT !.kind = "call", !.arg = tool_name, !.subj = customer_oid,
                                !.reg = AgentKeys(agents)]
           agent == get_agent_for_tool(agents, tool_name)
       IN  reqs' = [reqs EXCEPT ![r] =
                IF agent = NoAgent
                THEN [q EXCEPT !.pc = "done",
                               !.result.error = <<"No agent available for tool: ", tool_name>>,
                               !.result.body =
                                   ErrorBody(<<"No agent available for tool: ", tool_name>>)]
                ELSE GenerateBegin(q, agent, customer_oid)]
    /\ UNCHANGED <<phase, config, available, registered_tools, probeIdx, agents, served>>

\* POST /mcp/query up to its first await
query_agent_endpoint(r, agent_type, query, customer_oid) ==
    /\ Serving
    /\ CanBegin(r)
    /\ LET name == GetOr(agent_type, "market_analyst")
           q == [IdleReq EXCEPT !.kind = "query", !.arg = name, !.subj = customer_oid,
                                !.reg = AgentKeys(agents)]
           agent == get_agent(agents, name)
       IN  reqs' = [reqs EXCEPT ![r] =
                IF query = NoQuery
                THEN [q EXCEPT !.pc = "done",
                               !.result.body = ErrorBody(<<"Query is required">>)]
                ELSE IF agent = NoAgent
                THEN [q EXCEPT !.pc = "done",
                               !.result.body = ErrorBody(<<"Agent not found: ", name>>)]
                ELSE GenerateBegin(q, agent, customer_oid)]
    /\ UNCHANGED <<phase, config, available, registered_tools, probeIdx, agents, served>>

\* a /mcp/status that reports an error when no agent is registered
get_status_RequiresAgents(r) ==
    /\ Serving
    /\ CanBegin(r)
    /\ LET agents_status ==
               [n \in AgentKeys(agents) |->
                   [available |-> get_agent(agents, n).is_available,
                    model |-> get_agent(agents, n).model_name]]
       IN  reqs' = [reqs EXCEPT ![r] =
                [IdleReq EXCEPT !.pc = "done", !.kind = "status",
                                !.reg = AgentKeys(agents),
                                !.result.body =
                                    IF agents = <<>> THEN ErrorBody(<<"No agents available">>)
                                    ELSE [status |-> "running",
                                          agents |-> agents_status,
                                          tools |-> registered_tools]]]
    /\ UNCHANGED <<phase, config, available, registered_tools, probeIdx, agents, served>>

\* GET /mcp/status
get_status(r) ==
    /\ Serving
    /\ CanBegin(r)
    /\ LET agents_status ==
               [n \in AgentKeys(agents) |->
                   [available |-> get_agent(agents, n).is_available,
                    model |-> get_agent(agents, n).model_name]]
       IN  reqs' = [reqs EXCEPT ![r] =
                [IdleReq EXCEPT !.pc = "done", !.kind = "status",
                                !.reg = AgentKeys(agents),
                                !.result.body = [status |-> "running",
                                                 agents |-> agents_status,
                                                 tools |-> registered_tools]]]
    /\ UNCHANGED <<phase, config, available, registered_tools, probeIdx, agents, served>>

\* GET /mcp/customer/{customer_oid} up to its await of the composite record
customer_endpoint(r, customer_oid) ==
    /\ Serving
    /\ CanBegin(r)
    /\ reqs' = [reqs EXCEPT ![r] = [IdleReq EXCEPT !.pc = "fetching", !.kind = "customer",
                                             !.subj = customer_oid,
                                             !.tasks = ScheduledTasks]]
    /\ UNCHANGED <<phase, config, available, registered_tools, probeIdx, agents, served>>

\* a /mcp/analyze that takes the first registered agent when the mapped one
\* is not registered
analyze_customer_Fallback(r, analysis_type, customer_oid) ==
    /\ Serving
    /\ CanBegin(r)
    /\ LET type == GetOr(analysis_type, "comprehensive")
           q == [IdleReq EXCEPT !.kind = "analyze", !.arg = type, !.subj = customer_oid,
                                !.reg = AgentKeys(agents)]
           agent_name == agent_mapping(type)
           agent == IF get_agent(agents, agent_name) = NoAgent /\ agents # <<>>
                    THEN agents[1] ELSE get_agent(agents, agent_name)
       IN  reqs' = [reqs EXCEPT ![r] =
                IF customer_oid = NoSubject
                THEN [q EXCEPT !.pc = "done",
                               !.result.body = ErrorBody(<<"CustomerOID is required">>)]
                ELSE IF agent = NoAgent
                THEN [q EXCEPT !.pc = "done",
                               !.result.body =
                                   ErrorBody(<<"Agent not available: ", agent_name>>)]
                ELSE GenerateBegin(q, agent, customer_oid)]
    /\ UNCHANGED <<phase, config, available, registered_tools, probeIdx, agents, served>>

\* POST /mcp/analyze up to its first await
analyze_customer(r, analysis_type, customer_oid) ==
    /\ Serving
    /\ CanBegin(r)
    /\ LET type == GetOr(analysis_type, "comprehensive")
           q == [IdleReq EXCEPT !.kind = "analyze", !.arg = type, !.subj = customer_oid,
                                !.reg = AgentKeys(agents)]
           agent_name == agent_mapping(type)
           agent == get_agent(agents, agent_name)
       IN  reqs' = [reqs EXCEPT ![r] =
                IF customer_oid = NoSubject
                THEN [q EXCEPT !.pc = "done",
                               !.result.body = ErrorBody(<<"CustomerOID is required">>)]
                ELSE IF agent = NoAgent
                THEN [q EXCEPT !.pc = "done",
                               !.result.body =
                                   ErrorBody(<<"Agent not available: ", agent_name>>)]
                ELSE GenerateBegin(q, agent, customer_oid)]
    /\ UNCHANGED <<phase, config, available, registered_tools, probeIdx, agents, served>>

\* a generate_response that takes an agent whose generate call failed out of
\* the registry
GenerateReturn_Evict(r, ok) ==
    /\ reqs[r].pc = "generating"
    /\ reqs' = [reqs EXCEPT ![r].pc = "done",
                            ![r].gen.failed = ~ok,
                            ![r].result.response = GenerateResponse(ok),
                            ![r].result.body = HandlerReturn(reqs[r], GenerateResponse(ok))]
    /\ agents' = IF ok THEN agents
                 ELSE SelectSeq(agents, LAMBDA a : a.name # reqs[r].agent.name)
    /\ UNCHANGED <<phase, config, available, registered_tools, probeIdx, served>>

\* client.generate returns or raises; generate_response and the handler return
GenerateReturn(r, ok) ==
    /\ reqs[r].pc = "generating"
    /\ reqs' = [reqs EXCEPT ![r].pc = "done",
                            ![r].gen.failed = ~ok,
                            ![r].result.response = GenerateResponse(ok),
                            ![r].result.body = HandlerReturn(reqs[r], GenerateResponse(ok))]
    /\ UNCHANGED <<phase, config, available, registered_tools, probeIdx, agents, served>>

(***************************************************************************)
(* Configurations and inputs of the runs.                                  *)
(***************************************************************************)
\* Config._create_default_config: the four agents, all on llama3.2:latest
DefaultAgents ==
    <<AgentConfig("market_analyst", LLAMA32_LATEST, TRUE),
      AgentConfig("portfolio_manager", LLAMA32_LATEST, TRUE),
      AgentConfig("risk_analyst", LLAMA32_LATEST, TRUE),
      AgentConfig("explainability_agent", LLAMA32_LATEST, TRUE)>>

Reverse(seq) == [i \in 1..Len(seq) |-> seq[Len(seq) + 1 - i]]

WithEnabled(cfgs, enabled) ==
    [i \in 1..Len(cfgs) |-> [cfgs[i] EXCEPT !.enabled = (cfgs[i].name \in enabled)]]

WithModel(cfgs, name, model) ==
    [i \in 1..Len(cfgs) |-> IF cfgs[i].name = name THEN [cfgs[i] EXCEPT !.model = model]
                                                   ELSE cfgs[i]]

\* the runs: a configuration file and what the runtime lists.  The default
\* file with its model listed after another tag of it; the file reversed, one
\* agent disabled and one on llama3:latest, with llama3.2:3b the only llama
\* model listed; the default file with its last agent on another model, and
\* only that model listed.
\* A probe may also fail for any agent (ProbeAgent), so every subset of the
\* enabled agents is a registry some run builds.
Setups ==
    {<<DefaultAgents, <<LLAMA32_3B, LLAMA32_LATEST>>>>,
     <<WithModel(WithEnabled(Reverse(DefaultAgents), AgentNames \ {"explainability_agent"}),
                 "market_analyst", LLAMA3_LATEST),
       <<MISTRAL_7B, LLAMA32_3B>>>>,
     <<WithModel(DefaultAgents, "explainability_agent", MISTRAL_7B), <<MISTRAL_7B>>>>}

\* the task types of the table and one that is not in it
TaskTypes ==
    {"market_analysis", "portfolio", "risk", "explanation", "swot", "strategy", "general",
     "forecast"}

\* the tool names of the runs: one of the table for each agent, and two that
\* are not in the table
ToolNames ==
    {"get_market_data", "portfolio_analysis", "calculate_var", "explain_analysis",
     "analyze_portfolio", "portfolio_optimization"}

\* the keys of tool_agent_mapping
TableTools ==
    {"get_market_data", "analyze_stock", "get_economic_indicators", "market_sentiment",
     "generate_signals",
     "portfolio_analysis", "asset_allocation", "rebalance_portfolio", "performance_metrics",
     "backtest_strategy", "optimize_portfolio",
     "calculate_var", "stress_test", "correlation_analysis", "risk_metrics",
     "explain_analysis", "swot_analysis", "summarize_results"}

Subjects == {NoSubject, "CUST1"}

\* the agent_type values of /mcp/query: none, the four agents, another name
AgentTypes == AgentNames \cup {NoKey, "advisor"}

\* the query values of /mcp/query
Queries == {NoQuery, "What should I do?"}

\* the analysis_type values of /mcp/analyze: none, the four of the mapping,
\* another value
AnalysisTypes == {NoKey, "portfolio", "risk", "market", "comprehensive", "tax"}

\* the bank service answers or fails
ServerOutcomes == {"ok", "request_error"}

(***************************************************************************)
(* The server: registry initialisation, routing, tool calls.               *)
(***************************************************************************)
Init ==
    /\ phase = "new"
    /\ \E setup \in Setups : config = setup[1] /\ available = setup[2]
    /\ probeIdx = 1
    /\ agents = <<>>
    /\ registered_tools = <<>>
    /\ reqs = [r \in OneRequest |-> IdleReq]
    /\ served = 0

Next ==
    \/ Initialize
    \/ \E ok \in BOOLEAN : ConnectionTested(ok)
    \/ \E listOk \in BOOLEAN : ProbeAgent(listOk)
    \/ register_tools
    \/ Shutdown
    \/ \E r \in Requests, t \in TaskTypes, c \in Subjects : query_best_agent(r, t, c)
    \/ \E r \in Requests, t \in ToolNames, c \in Subjects : call_tool(r, t, c)
    \/ \E r \in Requests, a \in AgentTypes, q \in Queries, c \in Subjects :
           query_agent_endpoint(r, a, q, c)
    \/ \E r \in Requests : get_status(r)
    \/ \E r \in Requests : customer_endpoint(r, "CUST1")
    \/ \E r \in Requests, t \in AnalysisTypes, c \in Subjects : analyze_customer(r, t, c)
    \/ \E r \in Requests, i \in 1..Len(Sources) : StartFetch(r, i)
    \/ \E r \in Requests, s \in SourceSet, o \in ServerOutcomes : SettleFetch(r, s, o)
    \/ \E r \in Requests : Gathered(r)
    \/ \E r \in Requests, ok \in BOOLEAN : GenerateReturn(r, ok)
    \/ \E r \in Requests : Return(r)

Spec == Init /\ [][Next]_vars

(***************************************************************************)
(* The bank API client alone.                                              *)
(***************************************************************************)
InitFetch ==
    /\ phase = "new"
    /\ config = <<>>
    /\ available = <<>>
    /\ probeIdx = 1
    /\ agents = <<>>
    /\ registered_tools = <<>>
    /\ reqs = [r \in OneRequest |-> IdleReq]
    /\ served = 0

NextFetch ==
    \/ \E r \in Requests, c \in CustomerOIDs : get_comprehensive_customer_data(r, c)
    \/ \E r \in Requests : MarketCall(r)
    \/ \E r \in Requests, o \in Outcomes : MarketSettle(r, o)
    \/ \E r \in Requests, i \in 1..Len(Sources) : StartFetch(r, i)
    \/ \E r \in Requests, s \in SourceSet, o \in Outcomes : SettleFetch(r, s, o)
    \/ \E r \in Requests : Gathered(r)
    \/ \E r \in Requests : CancelRequest(r)
    \/ \E r \in Requests, s \in SourceSet : FetchCancelled(r, s)
    \/ \E r \in Requests : GatherCancelled(r)
    \/ \E r \in Requests : Return(r)

SpecFetch == InitFetch /\ [][NextFetch]_vars

(***************************************************************************)
(* The bank API client alone, the order of completion recorded.            *)
(***************************************************************************)
NextOrder ==
    \/ \E r \in Requests, c \in CustomerOIDs : get_comprehensive_customer_data(r, c)
    \/ \E r \in Requests, i \in 1..Len(Sources) : StartFetch(r, i)
    \/ \E r \in Requests, s \in SourceSet, o \in ServerOutcomes : SettleFetchOrdered(r, s, o)
    \/ \E r \in Requests : Gathered(r)
    \/ \E r \in Requests : Return(r)

SpecOrder == InitFetch /\ [][NextOrder]_vars

(***************************************************************************)
(* The bank API client alone, its caller never cancelled, under fair       *)
(* scheduling: the event loop runs every task that is ready (StartFetch,   *)
(* Gathered), and every HTTP request completes, with a response or with    *)
(* the timeout of its httpx client (SettleFetch).                          *)
(***************************************************************************)
NextLive ==
    \/ \E r \in Requests, c \in CustomerOIDs : get_comprehensive_customer_data(r, c)
    \/ \E r \in Requests, i \in 1..Len(Sources) : StartFetch(r, i)
    \/ \E r \in Requests, s \in SourceSet, o \in Outcomes : SettleFetch(r, s, o)
    \/ \E r \in Requests : Gathered(r)
    \/ \E r \in Requests : Return(r)

FairLive ==
    \A r \in OneRequest :
        /\ WF_vars(\E i \in 1..Len(Sources) : StartFetch(r, i))
        /\ \A s \in SourceSet : WF_vars(\E o \in Outcomes : SettleFetch(r, s, o))
        /\ WF_vars(Gathered(r))

SpecLive == InitFetch /\ [][NextLive]_vars /\ FairLive

(***************************************************************************)
(* Two calls of the bank API client in progress at once.                   *)
(***************************************************************************)
InitPair ==
    /\ phase = "new"
    /\ config = <<>>
    /\ available = <<>>
    /\ probeIdx = 1
    /\ agents = <<>>
    /\ registered_tools = <<>>
    /\ reqs = [r \in TwoRequests |-> IdleReq]
    /\ served = 0

NextPair ==
    \/ \E r \in Requests, c \in CustomerOIDs : get_comprehensive_customer_data(r, c)
    \/ \E r \in Requests, i \in 1..Len(Sources) : StartFetch(r, i)
    \/ \E r \in Requests, s \in SourceSet, o \in ServerOutcomes : SettleFetch(r, s, o)
    \/ \E r \in Requests : Gathered(r)
    \/ \E r \in Requests : Return(r)

SpecPair == InitPair /\ [][NextPair]_vars

(***************************************************************************)
(* The tool table: /mcp/call for every tool of the table, no customer id.  *)
(***************************************************************************)
NextTools ==
    \/ Initialize
    \/ \E ok \in BOOLEAN : ConnectionTested(ok)
    \/ \E listOk \in BOOLEAN : ProbeAgent(listOk)
    \/ register_tools
    \/ \E r \in Requests, t \in TableTools : call_tool(r, t, NoSubject)
    \/ \E r \in Requests, ok \in BOOLEAN : GenerateReturn(r, ok)
    \/ \E r \in Requests : Return(r)

SpecTools == Init /\ [][NextTools]_vars

(***************************************************************************)
(* Properties of the bank API client, checked under SpecFetch.             *)
(***************************************************************************)
\* the get_comprehensive_customer_data calls that have returned
Returned == {r \in Requests : reqs[r].kind = "composite" /\ reqs[r].pc = "done"}

\* the sources of a call whose fetch failed
Failed(r) == {s \in SourceSet : reqs[r].tasks[s].out # "ok"}

\* the query-string limit of a source's request
LimitOf(s) == IF s = "transactions" THEN TxLimit ELSE 0

\* the exception behind each failure of an HTTP request
ExceptionOf(outcome) ==
    CASE outcome = "http_status"   -> "HTTPStatusError"
      [] outcome = "request_error" -> "RequestError"
      [] outcome = "decode_error"  -> "JSONDecodeError"

\* an error record that names the failure behind it
CarriesError(v, outcome) ==
    /\ ~v.raised
    /\ v.body = NoUrl
    /\ Len(v.error) = 2
    /\ v.error[2] = ExceptionOf(outcome)

\* C1 as stated: whatever subset of the five fetches fails, the record
\* get_comprehensive_customer_data returns has exactly the five source keys
\* (customer for profile, risk_metrics for riskMetrics) and no other key.
C1_ExactlyFiveKeys ==
    \A r \in Returned : DOMAIN reqs[r].result.data = SourceSet

\* C1 amended: whatever subset of the five fetches fails, the record
\* get_comprehensive_customer_data returns has exactly the five source keys
\* and the key customer_oid, which holds the subject; it is never the blanket
\* error {"error": ...}.
C1_CompositeKeys ==
    \A r \in Returned :
        /\ DOMAIN reqs[r].result.data = SourceSet \cup {"customer_oid"}
        /\ reqs[r].result.data.customer_oid = reqs[r].subj

\* a call has returned after all five of its fetches failed
C1_Witness ==
    \E r \in Returned : Failed(r) = SourceSet

\* C2: if exactly one of the five fetches fails, the field of the failed source
\* holds an error marker, each of the other four fields holds the payload of
\* its own request, and the call returns the composite record, not the blanket
\* error.
C2_OneFailureIsolated ==
    \A r \in Returned :
        Cardinality(Failed(r)) = 1 =>
            LET data == reqs[r].result.data
            IN  /\ SourceSet \subseteq DOMAIN data
                /\ \A s \in Failed(r) :
                       data[s].error # <<>> /\ data[s].body = NoUrl /\ ~data[s].raised
                /\ \A s \in SourceSet \ Failed(r) :
                       data[s] = Payload(Url(s, reqs[r].subj, LimitOf(s)))

\* a call has returned after its transactions fetch alone failed
C2_Witness ==
    \E r \in Returned :
        /\ Failed(r) = {"transactions"}
        /\ reqs[r].tasks["transactions"].out = "request_error"

\* C3: a created fetch can always be started, whatever the outcome of the
\* others, and get_comprehensive_customer_data returns only after all five
\* fetches have settled.
C3_WaitForAll ==
    \A r \in Requests :
        /\ (reqs[r].pc = "fetching" /\ \E s \in SourceSet : reqs[r].tasks[s].st = "scheduled")
               => ENABLED (\E i \in 1..Len(Sources) : StartFetch(r, i))
        /\ (reqs[r].kind = "composite" /\ reqs[r].pc = "done")
               => \A s \in SourceSet : reqs[r].tasks[s].st = "done"

\* a call has returned with some fetches failed and some not, all five settled
C3_Witness ==
    \E r \in Returned :
        /\ Failed(r) # {} /\ Failed(r) # SourceSet
        /\ \A s \in SourceSet : reqs[r].tasks[s].st = "done"

\* C4: a source fetch always hands its caller a value: on a transport error, a
\* non-2xx status or a decode failure the value is an error record that names
\* the underlying error, on success it is the decoded payload; no exception
\* leaves get_customer_data, get_portfolio_data, get_accounts,
\* get_transactions, get_risk_metrics or get_market_data.
C4_FetchNeverRaises ==
    \A r \in Requests :
        /\ \A s \in SourceSet :
               reqs[r].tasks[s].st = "done" =>
                   LET t == reqs[r].tasks[s]
                   IN  /\ ~t.res.raised
                       /\ t.out = "ok" => t.res = Payload(Url(s, reqs[r].subj, LimitOf(s)))
                       /\ t.out # "ok" => CarriesError(t.res, t.out)
        /\ (reqs[r].kind = "market" /\ reqs[r].pc = "done") =>
               LET v == reqs[r].result.data
               IN  /\ ~v.raised
                   /\ reqs[r].http = "ok" => v = Payload(Url("market_data", NoSubject, 0))
                   /\ reqs[r].http # "ok" => CarriesError(v, reqs[r].http)

\* one call has met a non-2xx status, a transport error and a decode failure
C4_Witness ==
    \E r \in Requests :
        /\ reqs[r].tasks["customer"].out = "http_status"
        /\ reqs[r].tasks["transactions"].out = "request_error"
        /\ reqs[r].tasks["risk_metrics"].out = "decode_error"
        /\ \A s \in {"customer", "transactions", "risk_metrics"} : reqs[r].tasks[s].st = "done"

(***************************************************************************)
(* Properties of routing, checked under Spec.                              *)
(***************************************************************************)
\* the task-type table as the design states it
TaskTable ==
    [market_analysis |-> "market_analyst",
     portfolio       |-> "portfolio_manager",
     strategy        |-> "portfolio_manager",
     risk            |-> "risk_analyst",
     explanation     |-> "explainability_agent",
     swot            |-> "explainability_agent",
     general         |-> "explainability_agent"]

Preferred(task_type) ==
    IF task_type \in DOMAIN TaskTable THEN TaskTable[task_type] ELSE "explainability_agent"

\* the tool table as the design states it
ToolTable ==
    [get_market_data         |-> "market_analyst",
     analyze_stock           |-> "market_analyst",
     get_economic_indicators |-> "market_analyst",
     market_sentiment        |-> "market_analyst",
     generate_signals        |-> "market_analyst",
     portfolio_analysis      |-> "portfolio_manager",
     asset_allocation        |-> "portfolio_manager",
     rebalance_portfolio     |-> "portfolio_manager",
     performance_metrics     |-> "portfolio_manager",
     backtest_strategy       |-> "portfolio_manager",
     optimize_portfolio      |-> "portfolio_manager",
     calculate_var           |-> "risk_analyst",
     stress_test             |-> "risk_analyst",
     correlation_analysis    |-> "risk_analyst",
     risk_metrics            |-> "risk_analyst",
     explain_analysis        |-> "explainability_agent",
     swot_analysis           |-> "explainability_agent",
     summarize_results       |-> "explainability_agent"]

\* the query_best_agent calls and the /mcp/call requests in progress or returned
Routes == {r \in Requests : reqs[r].kind = "route"}
Calls == {r \in Requests : reqs[r].kind = "call"}

\* a request that was answered without an agent, a generate call or a fetch
Untouched(r) ==
    /\ reqs[r].pc = "done"
    /\ reqs[r].agent = NoAgent
    /\ ~reqs[r].gen.issued
    /\ reqs[r].tasks = NoTasks

\* the registered agent that was inserted first: the first of the
\* configuration file among those in the registry
FirstInserted(reg) ==
    config[CHOOSE i \in 1..Len(config) :
               /\ config[i].name \in reg
               /\ \A j \in 1..(i - 1) : config[j].name \notin reg].name

\* C5: whatever requests were served before, query_best_agent with task type
\* "risk" selects risk_analyst whenever risk_analyst is registered.
C5_RiskRouteHistoryFree ==
    \A r \in Routes :
        (reqs[r].arg = "risk" /\ "risk_analyst" \in reqs[r].reg) =>
            /\ reqs[r].result.agent_name = "risk_analyst"
            /\ reqs[r].agent.name = "risk_analyst"

\* a later request of a run is routed for "risk" with risk_analyst registered
C5_Witness ==
    \E r \in Routes :
        /\ served >= 1
        /\ reqs[r].arg = "risk" /\ "risk_analyst" \in reqs[r].reg
        /\ reqs[r].pc = "done"

\* C6: if the preferred agent of the task type is not registered and some
\* agent is, query_best_agent selects the registered agent that was inserted
\* first, reports its name, and that agent's generate call serves the request.
C6_FallbackFirstInserted ==
    \A r \in Routes :
        (reqs[r].reg # {} /\ Preferred(reqs[r].arg) \notin reqs[r].reg) =>
            /\ reqs[r].result.agent_name = FirstInserted(reqs[r].reg)
            /\ reqs[r].agent.name = FirstInserted(reqs[r].reg)
            /\ reqs[r].pc \in {"fetching", "generating", "done"}
            /\ reqs[r].pc \in {"generating", "done"} =>
                   reqs[r].gen.issued /\ reqs[r].gen.model = reqs[r].agent.model
            /\ reqs[r].pc = "done" => reqs[r].result.response # <<>>

\* "risk" was routed with risk_analyst missing and portfolio_manager inserted
\* before market_analyst: portfolio_manager served it
C6_Witness ==
    \E r \in Routes :
        /\ reqs[r].arg = "risk"
        /\ reqs[r].reg = {"portfolio_manager", "market_analyst"}
        /\ reqs[r].result.agent_name = "portfolio_manager"
        /\ reqs[r].pc = "done"

\* C7: get_agent_for_tool returns an agent only when the tool name is in the
\* tool table and the mapped agent is registered, and then that agent; in every
\* other case /mcp/call answers "No agent available for tool" and no agent is
\* invoked, whatever other agents are registered.
C7_ToolNoFallback ==
    \A r \in Calls :
        LET routable == /\ reqs[r].arg \in DOMAIN ToolTable
                        /\ ToolTable[reqs[r].arg] \in reqs[r].reg
        IN  /\ reqs[r].agent # NoAgent =>
                   routable /\ reqs[r].agent.name = ToolTable[reqs[r].arg]
            /\ ~routable =>
                   /\ Untouched(r)
                   /\ reqs[r].result.error = <<"No agent available for tool: ", reqs[r].arg>>
                   /\ reqs[r].result.response = <<>>

\* calculate_var was called for a customer with risk_analyst missing and other
\* agents registered
C7_Witness ==
    \E r \in Calls :
        /\ reqs[r].arg = "calculate_var" /\ reqs[r].subj = "CUST1"
        /\ "risk_analyst" \notin reqs[r].reg /\ "portfolio_manager" \in reqs[r].reg
        /\ reqs[r].pc = "done"

\* C8: with no agent registered, query_best_agent returns the agent name
\* "none" and an error text for every task type, and issues no generate call
\* and no source fetch.
C8_NoAgentSentinel ==
    \A r \in Routes :
        reqs[r].reg = {} =>
            /\ Untouched(r)
            /\ reqs[r].result.agent_name = "none"
            /\ reqs[r].result.response = <<"Error: No agents available">>

\* a task type was routed for a customer with an empty registry
C8_Witness ==
    \E r \in Routes :
        /\ reqs[r].reg = {} /\ reqs[r].subj = "CUST1" /\ reqs[r].arg = "portfolio"
        /\ reqs[r].pc = "done"

\* C9: the preferred agent of every task type is the one the table gives, and
\* explainability_agent for a task type that is not in the table; when the
\* preferred agent is registered, query_best_agent selects it.
C9_TaskTable ==
    /\ \A t \in TaskTypes : task_agent_mapping(t) = Preferred(t)
    /\ \A r \in Routes :
           Preferred(reqs[r].arg) \in reqs[r].reg =>
               /\ reqs[r].result.agent_name = Preferred(reqs[r].arg)
               /\ reqs[r].agent.name = Preferred(reqs[r].arg)

\* a task type that is not in the table was routed to explainability_agent
\* with other agents registered
C9_Witness ==
    \E r \in Routes :
        /\ reqs[r].arg = "forecast"
        /\ reqs[r].reg = AgentNames
        /\ reqs[r].result.agent_name = "explainability_agent"
        /\ reqs[r].pc = "done"

\* C10 as stated: a tool name that is not in the tool table is routed to
\* explainability_agent when explainability_agent is registered.
C10_UnknownToolToExplainability ==
    \A r \in Calls :
        (reqs[r].arg \notin DOMAIN ToolTable /\ "explainability_agent" \in reqs[r].reg) =>
            reqs[r].agent.name = "explainability_agent"

\* C10 amended: a tool name that is not in the tool table is routed to no
\* agent, also when explainability_agent is registered: /mcp/call answers
\* "No agent available for tool" and invokes no agent.
C10_UnknownToolNoAgent ==
    \A r \in Calls :
        reqs[r].arg \notin DOMAIN ToolTable =>
            /\ reqs[r].agent = NoAgent
            /\ reqs[r].pc = "done"
            /\ ~reqs[r].gen.issued
            /\ reqs[r].result.error = <<"No agent available for tool: ", reqs[r].arg>>

\* a tool that is not in the table was called with explainability_agent registered
C10_Witness ==
    \E r \in Calls :
        /\ reqs[r].arg = "analyze_portfolio"
        /\ "explainability_agent" \in reqs[r].reg
        /\ reqs[r].pc = "done"

(***************************************************************************)
(* Properties of the tool table, checked under SpecTools.                  *)
(***************************************************************************)
\* C11: the tool table of get_agent_for_tool has the eighteen tools of the
\* design, and with all four agents registered /mcp/call hands every one of
\* them to the registered agent the design's table gives.
C11_ToolTable ==
    /\ TableTools = DOMAIN ToolTable
    /\ \A t \in TableTools : tool_agent_mapping(t) = ToolTable[t]
    /\ \A r \in Calls :
           (reqs[r].reg = AgentNames /\ reqs[r].arg \in DOMAIN ToolTable) =>
               /\ reqs[r].agent.name = ToolTable[reqs[r].arg]
               /\ reqs[r].agent.is_available
               /\ reqs[r].pc \in {"generating", "done"}
               /\ reqs[r].gen.issued
               /\ reqs[r].result.error = <<>>

\* risk_metrics, the last tool of the risk_analyst row, was called with all
\* four agents registered and answered
C11_Witness ==
    \E r \in Calls :
        /\ reqs[r].arg = "risk_metrics"
        /\ reqs[r].reg = AgentNames
        /\ reqs[r].agent.name = "risk_analyst"
        /\ reqs[r].pc = "done"

(***************************************************************************)
(* Properties of model probing and of the registry, checked under Spec.    *)
(***************************************************************************)
\* the configuration entry of an agent name
Configured(name) == config[CHOOSE i \in 1..Len(config) : config[i].name = name]

\* the model names the runtime lists
Listed == {available[i] : i \in 1..Len(available)}

\* the positions of the list whose name starts with the base name of a model
PrefixMatches(model) ==
    {i \in 1..Len(available) : StartsWith(available[i], SplitBase(model))}

\* the identity the matching policy gives a configured model that has a match
ExpectedModel(model) ==
    IF model \in Listed THEN model
    ELSE available[CHOOSE i \in PrefixMatches(model) : \A j \in PrefixMatches(model) : i <= j]

\* C12: a registered agent whose configured model is listed keeps it, also
\* when another tag of the model is listed before it; a registered agent whose
\* configured model is not listed has a listed model that starts with the
\* configured base name, and its model identity is that listed name; the
\* generate call of an agent names the agent's identity after probing.
C12_ProbePolicy ==
    /\ \A i \in 1..Len(agents) :
           LET configured == Configured(agents[i].name).model
           IN  /\ configured \in Listed => agents[i].model = configured
               /\ configured \notin Listed =>
                      /\ PrefixMatches(configured) # {}
                      /\ agents[i].model = ExpectedModel(configured)
                      /\ agents[i].model # configured
    /\ \A r \in Requests :
           reqs[r].gen.issued =>
               reqs[r].gen.model = ExpectedModel(Configured(reqs[r].agent.name).model)

\* llama3.2:latest is configured and only llama3.2:3b of that model is listed:
\* an agent was registered and its generate call named llama3.2:3b
C12_Witness ==
    \E r \in Requests :
        /\ reqs[r].pc = "done"
        /\ reqs[r].gen.issued
        /\ Configured(reqs[r].agent.name).model = LLAMA32_LATEST
        /\ LLAMA32_LATEST \notin Listed
        /\ reqs[r].gen.model = LLAMA32_3B

\* the configured model has an exact or a prefix match in the list
Matches(cfg) == cfg.model \in Listed \/ PrefixMatches(cfg.model) # {}

\* C13: a round of the probing loop whose agent has no exact and no prefix
\* match, or whose list() call fails, leaves the registry as it is, does not
\* fail initialize and goes on to the next entry of the configuration; a round
\* whose agent is enabled, has a match and whose call succeeds registers the
\* agent and keeps the agents registered before; initialize completes only
\* after every entry was visited.
C13_ProbeFailureIsolated ==
    /\ [](Serving => probeIdx = Len(config) + 1)
    /\ [][\A listOk \in BOOLEAN :
             ProbeAgent(listOk) =>
                 LET cfg == config[probeIdx]
                 IN  /\ phase' # "failed"
                     /\ probeIdx' = probeIdx + 1
                     /\ probeIdx < Len(config) => phase' = "probing"
                     /\ (~listOk \/ ~Matches(cfg)) => agents' = agents
                     /\ (listOk /\ cfg.enabled /\ Matches(cfg)) =>
                            /\ cfg.name \in AgentKeys(agents')
                            /\ AgentKeys(agents) \subseteq AgentKeys(agents')]_vars

\* initialize has completed with the first three agents of the configuration
\* unmatched and the last one registered, or with the first agent's probe
\* failed and the three after it registered
C13_Witness ==
    /\ phase = "ready"
    /\ \/ /\ \A i \in 1..3 : config[i].enabled /\ ~Matches(config[i])
          /\ AgentKeys(agents) = {config[4].name}
       \/ /\ \A i \in 1..4 : config[i].enabled /\ Matches(config[i])
          /\ AgentKeys(agents) = {config[2].name, config[3].name, config[4].name}

\* the place of an agent name in the configuration
ConfigIndex(name) == CHOOSE i \in 1..Len(config) : config[i].name = name

\* C14: in every state, every agent of the registry is an agent of the
\* configuration that is enabled and whose round of the probing loop is over,
\* its is_available flag is true and its model identity is a name of the
\* runtime's list; the registry holds no agent twice.
C14_RegistryOnlyProbed ==
    /\ Cardinality(AgentKeys(agents)) = Len(agents)
    /\ \A i \in 1..Len(agents) :
           /\ \E k \in 1..Len(config) : config[k].name = agents[i].name
           /\ Configured(agents[i].name).enabled
           /\ ConfigIndex(agents[i].name) < probeIdx
           /\ agents[i].is_available
           /\ agents[i].model \in Listed

\* initialize has completed for a configuration with a disabled agent whose
\* model has a match, and the three enabled agents are registered, each with
\* a listed model that is not the configured one
C14_Witness ==
    /\ phase = "ready"
    /\ \E k \in 1..Len(config) : ~config[k].enabled /\ Matches(config[k])
    /\ Len(agents) = 3
    /\ \A i \in 1..Len(agents) : agents[i].model # agents[i].model_name

C16_FetchBeforeGenerate ==
    \A r \in Requests :
        /\ (reqs[r].subj # NoSubject /\ reqs[r].gen.issued) =>
               /\ \A s \in SourceSet : reqs[r].tasks[s].st = "done"
               /\ reqs[r].gen.customer # NoComposite
               /\ reqs[r].gen.customer.customer_oid = reqs[r].subj
               /\ \A s \in SourceSet : reqs[r].gen.customer[s] = reqs[r].tasks[s].res
        /\ (\E s \in SourceSet : reqs[r].tasks[s].st \in {"scheduled", "running"}) =>
               ~reqs[r].gen.issued
        /\ reqs[r].subj = NoSubject =>
               /\ reqs[r].tasks = NoTasks
               /\ reqs[r].gen.customer = NoComposite

\* an /mcp/query request with a customer id has its generate call under way,
\* after one of its fetches failed
C16_Witness ==
    \E r \in Requests :
        /\ reqs[r].kind = "query" /\ reqs[r].subj = "CUST1"
        /\ reqs[r].pc = "generating"
        /\ reqs[r].tasks["portfolio"].out = "request_error"
        /\ reqs[r].tasks["risk_metrics"].out = "ok"

\* a text, as the sequence of its parts, has this part
Embeds(text, part) == \E i \in 1..Len(text) : text[i] = part

\* C17 as stated: when the generate call of a request fails, the request
\* returns a text, not an exception; the text has the name of the agent and
\* the underlying error in it, and the result of query_best_agent names the
\* agent whose call failed.
C17_GenerationErrorNamesAgent ==
    \A r \in Requests :
        (reqs[r].pc = "done" /\ reqs[r].gen.failed) =>
            /\ reqs[r].result.response # <<>>
            /\ Embeds(reqs[r].result.response, "ResponseError")
            /\ Embeds(reqs[r].result.response, reqs[r].agent.name)
            /\ reqs[r].kind = "route" => reqs[r].result.agent_name = reqs[r].agent.name

\* the mapping of /analyze as the design states it
AnalyzeTable ==
    [portfolio     |-> "portfolio_manager",
     risk          |-> "risk_analyst",
     market        |-> "market_analyst",
     comprehensive |-> "explainability_agent"]

AnalyzeAgent(analysis_type) ==
    IF analysis_type \in DOMAIN AnalyzeTable THEN AnalyzeTable[analysis_type]
    ELSE "explainability_agent"

\* the /mcp/analyze requests in progress or returned
Analyses == {r \in Requests : reqs[r].kind = "analyze"}

\* C18: an /mcp/analyze request with a customer id whose mapped agent
\* (portfolio -> portfolio_manager, risk -> risk_analyst, market ->
\* market_analyst, comprehensive and any other value -> explainability_agent)
\* is registered is served by that agent, and when generate returns a text
\* the answer is exactly {customer_oid, analysis_type, agent_used, analysis}
\* with the customer id and analysis type of the request, the mapped agent
\* and that text.
C18_AnalyzeMapping ==
    \A r \in Analyses :
        (reqs[r].subj # NoSubject /\ AnalyzeAgent(reqs[r].arg) \in reqs[r].reg) =>
            /\ reqs[r].agent.name = AnalyzeAgent(reqs[r].arg)
            /\ (reqs[r].pc = "done" /\ ~reqs[r].gen.failed) =>
                   /\ reqs[r].gen.issued
                   /\ reqs[r].result.body =
                          [customer_oid  |-> reqs[r].subj,
                           analysis_type |-> reqs[r].arg,
                           agent_used    |-> AnalyzeAgent(reqs[r].arg),
                           analysis      |-> reqs[r].result.response]
                   /\ reqs[r].result.response = <<"OK">>

\* analysis type risk for CUST1 with risk_analyst registered and a model that
\* answers "OK"
C18_Witness ==
    \E r \in Analyses :
        /\ "risk_analyst" \in reqs[r].reg
        /\ reqs[r].result.body =
               [customer_oid |-> "CUST1", analysis_type |-> "risk",
                agent_used |-> "risk_analyst", analysis |-> <<"OK">>]

\* the /mcp/status requests
Statuses == {r \in Requests : reqs[r].kind = "status"}

\* C19: /mcp/status answers {status, agents, tools} and never an error: status
\* is "running", tools is the list of the tracked tools, and agents has
\* exactly one entry per registered agent, so with no agent registered it is
\* the empty mapping.
C19_Status ==
    \A r \in Statuses :
        LET body == reqs[r].result.body
        IN  /\ reqs[r].pc = "done"
            /\ DOMAIN body = {"status", "agents", "tools"}
            /\ body.status = "running"
            /\ body.tools = registered_tools
            /\ DOMAIN body.agents = reqs[r].reg
            /\ \A n \in reqs[r].reg : DOMAIN body.agents[n] = {"available", "model"}
            /\ reqs[r].reg = {} => body.agents = <<>>

\* initialize has completed with every probe failed, and /mcp/status has
\* answered with the two tracked tools and no agent
C19_Witness ==
    \E r \in Statuses :
        /\ phase = "ready"
        /\ \A i \in 1..Len(config) : config[i].enabled /\ Matches(config[i])
        /\ reqs[r].reg = {}
        /\ reqs[r].result.body.tools = <<"analyze_portfolio", "portfolio_optimization">>

(***************************************************************************)
(* Cancellation, checked under SpecFetch.                                  *)
(***************************************************************************)
\* C20: once the coroutine waiting in get_comprehensive_customer_data is
\* cancelled, every fetch of its that has not settled is being cancelled or
\* is cancelled: none can be started and none can complete its HTTP request;
\* when the call is gone, each of its five fetches either had settled before
\* the cancellation or is cancelled.
C20_CancelReachesFetches ==
    \A r \in Requests :
        /\ reqs[r].pc \in {"cancelling", "cancelled"} =>
               /\ \A s \in SourceSet :
                      reqs[r].tasks[s].st \in {"done", "cancelling", "cancelled"}
               /\ ~ENABLED (\E i \in 1..Len(Sources) : StartFetch(r, i))
               /\ ~ENABLED (\E s \in SourceSet, o \in Outcomes : SettleFetch(r, s, o))
        /\ reqs[r].pc = "cancelled" =>
               \A s \in SourceSet :
                   \/ reqs[r].tasks[s].st = "done" /\ reqs[r].tasks[s].out \in Outcomes
                   \/ /\ reqs[r].tasks[s].st = "cancelled"
                      /\ reqs[r].tasks[s].out = ""
                      /\ reqs[r].tasks[s].res = Raised("CancelledError")

\* a call was cancelled after two of its fetches had settled, and is gone
\* with the other three cancelled
C20_Witness ==
    \E r \in Requests :
        /\ reqs[r].pc = "cancelled"
        /\ reqs[r].tasks["customer"].st = "done"
        /\ reqs[r].tasks["portfolio"].st = "done"
        /\ \A s \in {"accounts", "transactions", "risk_metrics"} :
               reqs[r].tasks[s].st = "cancelled"

\* the fetches of a call that are suspended in their HTTP request
InFlightFetches(r) == {s \in SourceSet : reqs[r].tasks[s].st = "running"}

\* C24: the five fetches of a get_comprehensive_customer_data call do not
\* wait for one another: while the call awaits gather, the next fetch to
\* start can start whatever number of the fetches before it are still in
\* flight, none of them having settled.
C24_FetchesConcurrent ==
    \A r \in Requests :
        reqs[r].kind = "composite" /\ reqs[r].pc = "fetching" =>
            \A i \in 1..Len(Sources) :
                /\ reqs[r].tasks[Sources[i]].st = "scheduled"
                /\ \A j \in 1..(i - 1) : Sources[j] \in InFlightFetches(r)
                => ENABLED StartFetch(r, i)

\* the five fetches of a call are in flight at once
C24_Witness ==
    \E r \in Requests :
        /\ reqs[r].kind = "composite"
        /\ reqs[r].pc = "fetching"
        /\ InFlightFetches(r) = SourceSet

(***************************************************************************)
(* Termination of the bank API client, checked under SpecLive.             *)
(***************************************************************************)
\* a call awaits its gather
Awaiting(r) == reqs[r].kind = "composite" /\ reqs[r].pc = "fetching"

\* a call has returned a composite record
HasRecord(r) ==
    /\ reqs[r].kind = "composite"
    /\ reqs[r].pc = "done"
    /\ DOMAIN reqs[r].result.data = {"customer_oid"} \cup SourceSet

\* C25: if every fetch settles, a get_comprehensive_customer_data call that
\* awaits its gather eventually returns a composite record, and it stops
\* awaiting only in a step at which none of its five fetches is pending.
C25_EventuallyReturns ==
    /\ \A r \in OneRequest : Awaiting(r) ~> HasRecord(r)
    /\ [][\A r \in OneRequest :
             Awaiting(r) /\ ~Awaiting(r)' =>
                 /\ \A s \in SourceSet : reqs[r].tasks[s].st = "done"
                 /\ HasRecord(r)']_vars

\* a call has returned a record after fetches that settled with a response,
\* with an error status and with a transport error (a timeout is one)
C25_Witness ==
    \E r \in OneRequest :
        /\ HasRecord(r)
        /\ reqs[r].tasks["customer"].out = "ok"
        /\ reqs[r].tasks["portfolio"].out = "http_status"
        /\ reqs[r].tasks["accounts"].out = "request_error"

(***************************************************************************)
(* Properties of concurrent calls, checked under SpecPair.                 *)
(***************************************************************************)
\* C21: every get_comprehensive_customer_data call, also one made while
\* another call for the same customer is in progress or has returned, creates
\* its own five fetches, returns only after these have settled, and returns a
\* record for its own customer whose every field is what its own fetch of
\* that source produced.
C21_OwnFetchesOnly ==
    \A r \in Requests :
        reqs[r].kind = "composite" =>
            /\ \A s \in SourceSet : reqs[r].tasks[s].st # "none"
            /\ reqs[r].pc = "done" =>
                   /\ reqs[r].result.data.customer_oid = reqs[r].subj
                   /\ \A s \in SourceSet :
                          /\ reqs[r].tasks[s].st = "done"
                          /\ reqs[r].tasks[s].res =
                                 SourceTask(s, reqs[r].subj, reqs[r].tasks[s].out)
                          /\ reqs[r].result.data[s] = reqs[r].tasks[s].res

\* two calls for the same customer have returned at once, the customer fetch
\* of one failed and that of the other did not, and their records differ
C21_Witness ==
    /\ \A r \in TwoRequests : reqs[r].kind = "composite" /\ reqs[r].pc = "done"
    /\ reqs["r1"].subj = reqs["r2"].subj
    /\ reqs["r1"].tasks["customer"].out = "request_error"
    /\ reqs["r2"].tasks["customer"].out = "ok"
    /\ reqs["r1"].result.data # reqs["r2"].result.data

(***************************************************************************)
(* More properties of routing and of the handlers, checked under Spec.     *)
(***************************************************************************)
\* the requests with a customer id that went through agent selection
WithSubject ==
    {r \in Requests : /\ reqs[r].kind \in {"route", "call", "query", "analyze"}
                      /\ reqs[r].subj # NoSubject}

\* C27 as stated: the customer's data is requested before the agent is
\* selected, so every request with a customer id has its five fetches issued,
\* also when no agent is found for it.
C27_FetchBeforeRouting ==
    \A r \in WithSubject : \A s \in SourceSet : reqs[r].tasks[s].st # "none"

\* C27 amended: the agent is selected before the customer's data is
\* requested: a request with a customer id has its five fetches issued only
\* with its agent selected, a registered one whose generate_response was
\* called, and a request for which no agent is found is answered with no
\* fetch issued and no data obtained.
C27_RouteBeforeFetch ==
    \A r \in WithSubject :
        /\ reqs[r].agent = NoAgent =>
               /\ reqs[r].pc = "done"
               /\ reqs[r].tasks = NoTasks
               /\ reqs[r].composite = NoComposite
        /\ reqs[r].agent # NoAgent =>
               /\ reqs[r].agent.name \in reqs[r].reg
               /\ reqs[r].invoked = <<reqs[r].agent.name>>
               /\ \A s \in SourceSet : reqs[r].tasks[s].st # "none"

\* a /mcp/call request with a customer id was answered "No agent available
\* for tool" while other agents are registered, with no fetch issued
C27_Witness ==
    \E r \in WithSubject :
        /\ reqs[r].kind = "call"
        /\ reqs[r].pc = "done"
        /\ reqs[r].agent = NoAgent
        /\ reqs[r].reg # {}
        /\ reqs[r].result.error # <<>>
        /\ reqs[r].tasks = NoTasks

\* the registered agents whose model identity probing has rewritten
Substituted == {i \in 1..Len(agents) : agents[i].model # agents[i].model_name}

\* C26: the model identity probing gives a registered agent in place of its
\* configured model has the base name (the part before ':') of the
\* configured model.
C26_SameFamilyOnly ==
    \A i \in Substituted :
        SplitBase(agents[i].model) = SplitBase(agents[i].model_name)

\* C22: a query_best_agent call made with some agent registered calls
\* generate_response of exactly one agent, a registered one, issues at most
\* one generate call, and reports the name of the agent it called; a call
\* made with no agent registered calls none.
C22_ExactlyOneAgent ==
    \A r \in Routes :
        /\ reqs[r].reg # {} =>
               /\ Len(reqs[r].invoked) = 1
               /\ reqs[r].invoked[1] \in reqs[r].reg
               /\ reqs[r].invoked[1] = reqs[r].result.agent_name
               /\ reqs[r].agent.name = reqs[r].invoked[1]
               /\ reqs[r].gen.issued => reqs[r].gen.model = reqs[r].agent.model
        /\ reqs[r].reg = {} =>
               /\ reqs[r].invoked = <<>>
               /\ ~reqs[r].gen.issued

\* a request was routed to its preferred agent while the registry's first
\* agent is another one, and has returned
C22_Witness ==
    \E r \in Routes :
        /\ reqs[r].pc = "done"
        /\ Cardinality(reqs[r].reg) >= 2
        /\ reqs[r].invoked = <<Preferred(reqs[r].arg)>>
        /\ FirstInserted(reqs[r].reg) # Preferred(reqs[r].arg)

(***************************************************************************)
(* Properties of the order of completion, checked under SpecOrder.         *)
(***************************************************************************)
\* the composite record of a subject and of one outcome for each source
RecordOf(customer_oid, outs) ==
    [k \in {"customer_oid"} \cup SourceSet |->
        IF k = "customer_oid" THEN customer_oid
        ELSE Field(SourceTask(k, customer_oid, outs[k]))]

\* the rank of each source's fetch among the completions of a call
CompletionRank(r) == [s \in SourceSet |-> reqs[r].tasks[s].seq]

\* C23: the record a get_comprehensive_customer_data call returns is
\* determined by its subject and by the outcome of each source's fetch
\* alone, whatever order the five fetches completed in: each field holds
\* the outcome of its own source.
C23_OrderIndependent ==
    \A r \in Returned :
        /\ {CompletionRank(r)[s] : s \in SourceSet} = 1..Len(Sources)
        /\ reqs[r].result.data =
               RecordOf(reqs[r].subj, [s \in SourceSet |-> reqs[r].tasks[s].out])

\* a call has returned whose fetches completed in the reverse of the order
\* they were created in, the first and the last with different outcomes
C23_Witness ==
    \E r \in Returned :
        /\ \A i \in 1..Len(Sources) :
               CompletionRank(r)[Sources[i]] = Len(Sources) + 1 - i
        /\ reqs[r].tasks["customer"].out = "request_error"
        /\ reqs[r].tasks["risk_metrics"].out = "ok"

\* C28: the model /mcp/status reports for a registered agent is the model
\* identity the agent's generate calls name, also after probing has put a
\* prefix-matched model in place of the configured one.
C28_StatusModelIsGenerateModel ==
    \A r \in Statuses :
        \A n \in reqs[r].reg :
            reqs[r].result.body.agents[n].model =
                GenCall(get_agent(agents, n), NoComposite).model

\* the tool names the tool registry tracks, which /mcp/status lists
Tracked == {registered_tools[i] : i \in 1..Len(registered_tools)}

\* C29: with all four agents registered, a /mcp/call request that names a
\* tracked tool finds an agent and is not answered "No agent available for
\* tool".
C29_TrackedToolsRoutable ==
    \A r \in Calls :
        (reqs[r].arg \in Tracked /\ reqs[r].reg = AgentNames) =>
            /\ reqs[r].agent # NoAgent
            /\ reqs[r].result.error = <<>>

\* a request was answered with no agent invoked and no fetch issued
NothingInvoked(r) ==
    /\ reqs[r].pc = "done"
    /\ reqs[r].agent = NoAgent
    /\ reqs[r].invoked = <<>>
    /\ ~reqs[r].gen.issued
    /\ reqs[r].tasks = NoTasks

\* the /mcp/query requests in progress or returned
QueryRequests == {r \in Requests : reqs[r].kind = "query"}

\* C30: /mcp/analyze and /mcp/query never take another agent than the one
\* the analysis_type mapping gives or the request names: if that agent is
\* not registered the request is answered with an error body, with no agent
\* invoked and no fetch issued, whatever other agents are registered; an
\* /mcp/analyze without a customer id is answered "CustomerOID is required"
\* and an /mcp/query without a query "Query is required", with nothing
\* invoked, whether the agent is registered or not.
C30_NoFallback ==
    /\ [](\A r \in Analyses :
             /\ reqs[r].subj = NoSubject =>
                    /\ NothingInvoked(r)
                    /\ reqs[r].result.body = ErrorBody(<<"CustomerOID is required">>)
             /\ (reqs[r].subj # NoSubject /\ AnalyzeAgent(reqs[r].arg) \notin reqs[r].reg) =>
                    /\ NothingInvoked(r)
                    /\ reqs[r].result.body =
                           ErrorBody(<<"Agent not available: ", AnalyzeAgent(reqs[r].arg)>>)
             /\ reqs[r].agent # NoAgent => reqs[r].agent.name = AnalyzeAgent(reqs[r].arg))
    /\ [](\A r \in QueryRequests :
             /\ reqs[r].arg \notin reqs[r].reg =>
                    /\ NothingInvoked(r)
                    /\ reqs[r].result.body \in
                           {ErrorBody(<<"Agent not found: ", reqs[r].arg>>),
                            ErrorBody(<<"Query is required">>)}
             /\ reqs[r].agent # NoAgent => reqs[r].agent.name = reqs[r].arg)
    /\ [][\A r \in OneRequest, a \in AgentTypes, c \in Subjects :
             query_agent_endpoint(r, a, NoQuery, c) =>
                 /\ NothingInvoked(r)'
                 /\ reqs'[r].result.body = ErrorBody(<<"Query is required">>)]_vars

\* an /mcp/analyze request of type risk for a customer was answered "Agent
\* not available: risk_analyst" with three other agents registered
C30_Witness ==
    \E r \in Analyses :
        /\ reqs[r].arg = "risk"
        /\ reqs[r].subj # NoSubject
        /\ reqs[r].reg = AgentNames \ {"risk_analyst"}
        /\ NothingInvoked(r)
        /\ reqs[r].result.body = ErrorBody(<<"Agent not available: ", "risk_analyst">>)
====
